---------------------------- MODULE Spec2Model ----------------------------
(***************************************************************************)
(* Model of D1EngineSpec (src/src/superset_engine_d1/d1_engine_spec.py),   *)
(* the Superset engine spec for Cloudflare D1.                             *)
(*                                                                         *)
(* Python str values whose characters matter (table names, function names, *)
(* SQL literals, error messages) are sequences of one-character strings.   *)
(* The SQLAlchemy Inspector is the Mock of tests/test_d1_engine_spec.py: a *)
(* record of the answer it is configured to give and its call counts.      *)
(***************************************************************************)
EXTENDS Integers, Sequences, FiniteSets, TLC

VARIABLES
    op,      \* the classmethod that ran last ("init" before any call)
    args,    \* its arguments other than the inspector
    input,   \* what the injected collaborator answered / the pure input
    result,  \* what the classmethod returned or raised
    calls    \* inspector.<method>.call_count during that classmethod call

vars == <<op, args, input, result, calls>>

(***************************************************************************)
(* Bounds of the model                                                     *)
(***************************************************************************)
MaxNames == 2
MaxCols == 2

(***************************************************************************)
(* Python helpers                                                          *)
(***************************************************************************)
Range(s) == {s[i] : i \in 1..Len(s)}

SeqsUpTo(S, n) == UNION {[1..k -> S] : k \in 0..n}

\* str.startswith(prefix)
startswith_short(s, prefix) ==
    Len(s) >= Len(prefix) - 1 /\ SubSeq(s, 1, Len(prefix) - 1) = SubSeq(prefix, 1, Len(prefix) - 1)

startswith(s, prefix) ==
    Len(s) >= Len(prefix) /\ SubSeq(s, 1, Len(prefix)) = prefix

\* dict.get(key, default)
dict_get(d, key, default) == IF key \in DOMAIN d THEN d[key] ELSE default

Return(v) == [kind |-> "return", value |-> v]

\* raise RuntimeError(...): only the class of the exception is kept
Raise(cls) == [kind |-> "raise", value |-> cls]

NoValue == [kind |-> "none", value |-> "none"]

(***************************************************************************)
(* The inspector                                                           *)
(***************************************************************************)
InspectorMethods ==
    {"get_table_names", "get_view_names", "get_columns",
     "get_pk_constraint", "get_foreign_keys"}

NoCalls == [m \in InspectorMethods |-> 0]

\* A fresh Mock configured with one answer (return_value or side_effect)
Mock(answer) == [answer |-> answer, calls |-> NoCalls]

Ok(v) == [kind |-> "ok", value |-> v]

\* Exceptions an inspector raises; all derive from Exception
InspectorErrors == {"OperationalError", "KeyError"}

Failures == {[kind |-> "raise", value |-> e] : e \in InspectorErrors}

\* inspector.<method>(...): the call is counted, the configured answer comes back
InspectorCall(inspector, method) ==
    [inspector |-> [inspector EXCEPT !.calls[method] = @ + 1],
     out |-> inspector.answer]

(***************************************************************************)
(* get_table_names / get_view_names                                        *)
(***************************************************************************)
ReservedPrefix == <<"_", "c", "f">>

get_table_names(database, inspector, schema) ==
    LET c == InspectorCall(inspector, "get_table_names") IN
    IF c.out.kind = "raise"
    THEN [inspector |-> c.inspector, result |-> Raise("RuntimeError")]
    ELSE [inspector |-> c.inspector,
          result |-> Return({t \in Range(c.out.value) : ~startswith(t, ReservedPrefix)})]

get_view_names(database, inspector, schema) ==
    LET c == InspectorCall(inspector, "get_view_names") IN
    IF c.out.kind = "raise"
    THEN [inspector |-> c.inspector, result |-> Raise("RuntimeError")]
    ELSE [inspector |-> c.inspector,
          result |-> Return({v \in Range(c.out.value) : ~startswith(v, ReservedPrefix)})]

\* Names an inspector may report: user objects, system objects, near misses
Names ==
    {<<"t", "1">>, <<"_", "c", "f", "_", "K", "V">>, <<"_", "c", "f">>, <<"_", "c">>, <<"x", "_", "c", "f">>}

Schemas == {"None", "main"}

NameAnswers == {Ok(s) : s \in SeqsUpTo(Names, MaxNames)} \cup Failures

GetTableNames ==
    \E schema \in Schemas, answer \in NameAnswers :
        LET r == get_table_names("None", Mock(answer), schema) IN
        /\ op' = "get_table_names"
        /\ args' = <<schema>>
        /\ input' = answer
        /\ result' = r.result
        /\ calls' = r.inspector.calls

GetViewNames ==
    \E schema \in Schemas, answer \in NameAnswers :
        LET r == get_view_names("None", Mock(answer), schema) IN
        /\ op' = "get_view_names"
        /\ args' = <<schema>>
        /\ input' = answer
        /\ result' = r.result
        /\ calls' = r.inspector.calls

(***************************************************************************)
(* get_columns                                                             *)
(***************************************************************************)
\* the row get_columns builds from one reflected column
column_row_keeps_name(col) ==
    [k \in {"name", "type", "nullable", "default", "autoincrement"} |->
        CASE k = "name" -> col["name"]
          [] k = "type" -> col["type"]
          [] k = "nullable" -> dict_get(col, "nullable", TRUE)
          [] k = "default" -> dict_get(col, "default", "None")
          [] k = "autoincrement" -> dict_get(col, "autoincrement", FALSE)]

column_row_swapped_defaults(col) ==
    [k \in {"column_name", "type", "nullable", "default", "autoincrement"} |->
        CASE k = "column_name" -> col["name"]
          [] k = "type" -> col["type"]
          [] k = "nullable" -> dict_get(col, "nullable", FALSE)
          [] k = "default" -> dict_get(col, "default", "None")
          [] k = "autoincrement" -> dict_get(col, "autoincrement", TRUE)]

column_row(col) ==
    [k \in {"column_name", "type", "nullable", "default", "autoincrement"} |->
        CASE k = "column_name" -> col["name"]
          [] k = "type" -> col["type"]
          [] k = "nullable" -> dict_get(col, "nullable", TRUE)
          [] k = "default" -> dict_get(col, "default", "None")
          [] k = "autoincrement" -> dict_get(col, "autoincrement", FALSE)]

get_columns(inspector, table, options) ==
    LET c == InspectorCall(inspector, "get_columns") IN
    IF c.out.kind = "raise"
    THEN [inspector |-> c.inspector, result |-> Raise("RuntimeError")]
    ELSE IF \E i \in 1..Len(c.out.value) :
                ~({"name", "type"} \subseteq DOMAIN c.out.value[i])
    THEN \* col["name"] or col["type"] raises KeyError inside the try
         [inspector |-> c.inspector, result |-> Raise("RuntimeError")]
    ELSE [inspector |-> c.inspector,
          result |-> Return([i \in 1..Len(c.out.value) |-> column_row(c.out.value[i])])]

\* Reflected columns: name and type always, the other keys of SQLAlchemy's
\* ReflectedColumn optionally, and primary_key, an extra key SQLite reflection adds
ColumnNames == {"id", "name"}

ColumnType(name) == IF name = "id" THEN "INTEGER" ELSE "TEXT"

OptionalKeys ==
    {{},
     {"nullable"},
     {"default", "autoincrement"},
     {"nullable", "default", "autoincrement", "primary_key"}}

ReflectedColumn(name, keys) ==
    [k \in {"name", "type"} \cup keys |->
        CASE k = "name" -> name
          [] k = "type" -> ColumnType(name)
          [] k = "nullable" -> FALSE
          [] k = "default" -> "1"
          [] k = "autoincrement" -> TRUE
          [] k = "primary_key" -> 1]

ReflectedColumns == {ReflectedColumn(n, ks) : n \in ColumnNames, ks \in OptionalKeys}

ColumnAnswers == {Ok(s) : s \in SeqsUpTo(ReflectedColumns, MaxCols)} \cup Failures

Tables == {"test_table"}

GetColumns ==
    \E table \in Tables, answer \in ColumnAnswers :
        LET r == get_columns(Mock(answer), table, "None") IN
        /\ op' = "get_columns"
        /\ args' = <<table>>
        /\ input' = answer
        /\ result' = r.result
        /\ calls' = r.inspector.calls

(***************************************************************************)
(* get_pk_constraint / get_foreign_keys                                    *)
(***************************************************************************)
get_pk_constraint_swallow(inspector, table_name, schema) ==
    LET c == InspectorCall(inspector, "get_pk_constraint") IN
    IF c.out.kind = "raise"
    THEN [inspector |-> c.inspector, result |-> Return([constrained_columns |-> <<>>])]
    ELSE [inspector |-> c.inspector, result |-> Return(c.out.value)]

get_pk_constraint(inspector, table_name, schema) ==
    LET c == InspectorCall(inspector, "get_pk_constraint") IN
    IF c.out.kind = "raise"
    THEN [inspector |-> c.inspector, result |-> Raise("RuntimeError")]
    ELSE [inspector |-> c.inspector, result |-> Return(c.out.value)]

get_foreign_keys_retry(inspector, table_name, schema) ==
    LET c == InspectorCall(inspector, "get_foreign_keys")
        d == IF c.out.kind = "raise"
             THEN InspectorCall(c.inspector, "get_foreign_keys")
             ELSE c
    IN
    IF d.out.kind = "raise"
    THEN [inspector |-> d.inspector, result |-> Raise("RuntimeError")]
    ELSE [inspector |-> d.inspector, result |-> Return(d.out.value)]

get_foreign_keys(inspector, table_name, schema) ==
    LET c == InspectorCall(inspector, "get_foreign_keys") IN
    IF c.out.kind = "raise"
    THEN [inspector |-> c.inspector, result |-> Raise("RuntimeError")]
    ELSE [inspector |-> c.inspector, result |-> Return(c.out.value)]

PkAnswers ==
    {Ok([constrained_columns |-> cs]) : cs \in {<<>>, <<"id">>, <<"id", "name">>}}
        \cup Failures

ForeignKey(table) ==
    [constrained_columns |-> <<"id">>, referred_schema |-> "None",
     referred_table |-> table, referred_columns |-> <<"id">>]

FkAnswers ==
    {Ok(s) : s \in {<<>>, <<ForeignKey("another_table")>>,
                     <<ForeignKey("another_table"), ForeignKey("test_table")>>}}
        \cup Failures

GetPkConstraint ==
    \E table_name \in Tables, schema \in Schemas, answer \in PkAnswers :
        LET r == get_pk_constraint(Mock(answer), table_name, schema) IN
        /\ op' = "get_pk_constraint"
        /\ args' = <<table_name, schema>>
        /\ input' = answer
        /\ result' = r.result
        /\ calls' = r.inspector.calls

GetForeignKeys ==
    \E table_name \in Tables, schema \in Schemas, answer \in FkAnswers :
        LET r == get_foreign_keys(Mock(answer), table_name, schema) IN
        /\ op' = "get_foreign_keys"
        /\ args' = <<table_name, schema>>
        /\ input' = answer
        /\ result' = r.result
        /\ calls' = r.inspector.calls

(***************************************************************************)
(* get_function_names                                                      *)
(***************************************************************************)
\* ord() of the characters function names are written in
Letters == <<"a", "b", "c", "d", "e", "f", "g", "h", "i", "j", "k", "l", "m", "n", "o", "p", "q", "r", "s", "t", "u", "v", "w", "x", "y", "z">>

ord(ch) ==
    IF ch = "_" THEN 95
    ELSE 96 + (CHOOSE i \in 1..Len(Letters) : Letters[i] = ch)

\* str.__lt__: code point order, a proper prefix sorts first
RECURSIVE str_lt(_, _)
str_lt(a, b) ==
    IF b = <<>> THEN FALSE
    ELSE IF a = <<>> THEN TRUE
    ELSE IF Head(a) = Head(b) THEN str_lt(Tail(a), Tail(b))
    ELSE ord(Head(a)) < ord(Head(b))

\* sorted(): the stable sort on str.__lt__. The element at index k goes to
\* the position after those that compare lower and those that compare equal
\* and come earlier in the list.
sorted_unsorted(l) == l

sorted(l) ==
    LET n == Len(l)
        before(j, k) == str_lt(l[j], l[k]) \/ (~str_lt(l[k], l[j]) /\ j < k)
        position == [k \in 1..n |-> 1 + Cardinality({j \in 1..n : before(j, k)})]
    IN  [i \in 1..n |-> l[CHOOSE k \in 1..n : position[k] = i]]

functions ==
    <<<<"a", "b", "s">>,
      <<"a", "c", "o", "s">>,
      <<"a", "s", "i", "n">>,
      <<"a", "t", "a", "n">>,
      <<"a", "v", "g">>,
      <<"c", "e", "i", "l">>,
      <<"c", "o", "a", "l", "e", "s", "c", "e">>,
      <<"c", "o", "s">>,
      <<"c", "o", "u", "n", "t">>,
      <<"d", "a", "t", "e">>,
      <<"d", "a", "t", "e", "t", "i", "m", "e">>,
      <<"e", "x", "p">>,
      <<"f", "l", "o", "o", "r">>,
      <<"h", "e", "x">>,
      <<"i", "f", "n", "u", "l", "l">>,
      <<"i", "i", "f">>,
      <<"i", "n", "s", "t", "r">>,
      <<"j", "s", "o", "n">>,
      <<"j", "s", "o", "n", "_", "e", "x", "t", "r", "a", "c", "t">>,
      <<"j", "s", "o", "n", "_", "o", "b", "j", "e", "c", "t">>,
      <<"j", "s", "o", "n", "_", "a", "r", "r", "a", "y">>,
      <<"j", "s", "o", "n", "_", "a", "r", "r", "a", "y", "_", "l", "e", "n", "g", "t", "h">>,
      <<"j", "s", "o", "n", "_", "v", "a", "l", "i", "d">>,
      <<"l", "e", "n", "g", "t", "h">>,
      <<"l", "i", "k", "e">>,
      <<"l", "o", "g">>,
      <<"l", "o", "w", "e", "r">>,
      <<"l", "t", "r", "i", "m">>,
      <<"m", "a", "x">>,
      <<"m", "i", "n">>,
      <<"m", "o", "d">>,
      <<"n", "u", "l", "l", "i", "f">>,
      <<"p", "i">>,
      <<"p", "o", "w">>,
      <<"p", "o", "w", "e", "r">>,
      <<"p", "r", "i", "n", "t", "f">>,
      <<"q", "u", "o", "t", "e">>,
      <<"r", "a", "n", "d", "o", "m">>,
      <<"r", "e", "p", "l", "a", "c", "e">>,
      <<"r", "o", "u", "n", "d">>,
      <<"r", "t", "r", "i", "m">>,
      <<"s", "i", "g", "n">>,
      <<"s", "i", "n">>,
      <<"s", "q", "r", "t">>,
      <<"s", "t", "r", "f", "t", "i", "m", "e">>,
      <<"s", "u", "b", "s", "t", "r">>,
      <<"s", "u", "m">>,
      <<"t", "a", "n">>,
      <<"t", "i", "m", "e">>,
      <<"t", "o", "t", "a", "l", "_", "c", "h", "a", "n", "g", "e", "s">>,
      <<"t", "r", "i", "m">>,
      <<"t", "y", "p", "e", "o", "f">>,
      <<"u", "n", "i", "x", "e", "p", "o", "c", "h">>,
      <<"u", "p", "p", "e", "r">>,
      <<"z", "e", "r", "o", "b", "l", "o", "b">>>>

\* the list is a literal, so every call sorts the same list
sorted_functions == sorted(functions)

get_function_names(database) == sorted_functions

Databases == {"None", "db"}

GetFunctionNames ==
    \E database \in Databases :
        /\ op' = "get_function_names"
        /\ args' = <<database>>
        /\ input' = NoValue
        /\ result' = Return(get_function_names(database))
        /\ calls' = NoCalls

(***************************************************************************)
(* Specification of the reflection helpers                                 *)
(***************************************************************************)
Init ==
    /\ op = "init"
    /\ args = <<>>
    /\ input = NoValue
    /\ result = NoValue
    /\ calls = NoCalls

Next ==
    \/ GetTableNames
    \/ GetViewNames
    \/ GetColumns
    \/ GetPkConstraint
    \/ GetForeignKeys
    \/ GetFunctionNames

Spec == Init /\ [][Next]_vars

(***************************************************************************)
(* Claims about the reflection helpers, checked under Spec                 *)
(***************************************************************************)
\* "_cf" followed by anything
HasReservedPrefix(n) == \E rest \in {SubSeq(n, 4, Len(n))} : n = ReservedPrefix \o rest

ReflectedOk == input.kind = "ok"

\* C1: get_table_names and get_view_names return exactly the set of reported
\* names that do not start with "_cf": every prefixed name is excluded, every
\* other name is included, and a name reported twice is one element.
C1_NamesFiltered ==
    (op \in {"get_table_names", "get_view_names"} /\ ReflectedOk) =>
        /\ result.kind = "return"
        /\ result.value \subseteq Range(input.value)
        /\ \A n \in Range(input.value) : n \in result.value <=> ~HasReservedPrefix(n)
        /\ Cardinality(result.value) =
               Cardinality({n \in Range(input.value) : ~HasReservedPrefix(n)})

C1_Witness ==
    /\ op = "get_view_names"
    /\ ReflectedOk
    /\ input.value = <<<<"_", "c", "f", "_", "K", "V">>, <<"t", "1">>>>
    /\ result = Return({<<"t", "1">>})

\* C2: get_columns returns one record per reflected column, in the inspector's
\* order, the i-th with column_name equal to the i-th input's name and with no
\* key called name.
C2_ColumnsRenamedInOrder ==
    (op = "get_columns" /\ ReflectedOk) =>
        /\ result.kind = "return"
        /\ Len(result.value) = Len(input.value)
        /\ \A i \in 1..Len(input.value) :
              /\ "column_name" \in DOMAIN result.value[i]
              /\ result.value[i]["column_name"] = input.value[i]["name"]
              /\ "name" \notin DOMAIN result.value[i]

C2_Witness ==
    /\ op = "get_columns"
    /\ ReflectedOk
    /\ Len(input.value) = 2
    /\ input.value[1]["name"] = "name"
    /\ input.value[2]["name"] = "id"
    /\ result.kind = "return"
    /\ result.value[1]["column_name"] = "name"
    /\ result.value[2]["column_name"] = "id"

PassedKeys == {"type", "nullable", "default", "autoincrement"}

DefaultOf(k) ==
    CASE k = "nullable" -> TRUE
      [] k = "autoincrement" -> FALSE
      [] k = "default" -> "None"

\* out is the row the code is documented to build from the reflected column col
RowOf(col, out) ==
    /\ DOMAIN out = {"column_name"} \cup PassedKeys
    /\ out["column_name"] = col["name"]
    /\ \A k \in PassedKeys :
          IF k \in DOMAIN col THEN out[k] = col[k] ELSE out[k] = DefaultOf(k)

\* C3 as stated: every key/value pair of the reflected column other than name
\* is in the output record with the same value, nullable defaulting to true
\* and autoincrement to false only when absent.
C3_EveryFieldPassesThrough ==
    (op = "get_columns" /\ ReflectedOk) =>
        /\ result.kind = "return"
        /\ \A i \in 1..Len(input.value) :
              /\ \A k \in (DOMAIN input.value[i]) \ {"name"} :
                    /\ k \in DOMAIN result.value[i]
                    /\ result.value[i][k] = input.value[i][k]
              /\ "nullable" \notin DOMAIN input.value[i] => result.value[i]["nullable"] = TRUE
              /\ "autoincrement" \notin DOMAIN input.value[i] =>
                    result.value[i]["autoincrement"] = FALSE

\* C3 amended: the output record has exactly the keys column_name, type,
\* nullable, default and autoincrement; type, nullable, default and
\* autoincrement carry the input's value when the input has the key, and
\* nullable is true, autoincrement false and default null when it has not;
\* any other key of the input (primary_key) is dropped.
C3_ReflectedFieldsPassThrough ==
    (op = "get_columns" /\ ReflectedOk) =>
        /\ result.kind = "return"
        /\ Len(result.value) = Len(input.value)
        /\ \A i \in 1..Len(input.value) : RowOf(input.value[i], result.value[i])

C3_Witness ==
    /\ op = "get_columns"
    /\ ReflectedOk
    /\ Len(input.value) = 2
    /\ "primary_key" \in DOMAIN input.value[1]
    /\ input.value[1]["nullable"] = FALSE
    /\ DOMAIN input.value[2] = {"name", "type"}
    /\ result.kind = "return"
    /\ "primary_key" \notin DOMAIN result.value[1]
    /\ result.value[1]["nullable"] = FALSE
    /\ result.value[2]["nullable"] = TRUE
    /\ result.value[2]["autoincrement"] = FALSE

\* C4: when the delegated inspector call raises, the helper raises the
\* adapter's RuntimeError and returns nothing; when the inspector call
\* succeeds, the helper returns.
C4_FailuresWrapped ==
    op \in InspectorMethods =>
        /\ input.kind = "raise" => (result.kind = "raise" /\ result.value = "RuntimeError")
        /\ input.kind = "ok" => result.kind = "return"

C4_Witness ==
    /\ op = "get_pk_constraint"
    /\ input.kind = "raise"
    /\ input.value = "OperationalError"
    /\ result.kind = "raise"
    /\ result.value = "RuntimeError"

\* the result the inspector's answer alone determines
AnswerDetermines(method, answer, res) ==
    IF answer.kind = "raise" THEN res.kind = "raise" /\ res.value = "RuntimeError"
    ELSE /\ res.kind = "return"
         /\ CASE method \in {"get_table_names", "get_view_names"} ->
                    res.value = {n \in Range(answer.value) : ~HasReservedPrefix(n)}
              [] method = "get_columns" ->
                    /\ Len(res.value) = Len(answer.value)
                    /\ \A i \in 1..Len(answer.value) : RowOf(answer.value[i], res.value[i])
              [] OTHER -> res.value = answer.value

\* C10: after any sequence of calls, the helper that ran last made exactly one
\* call to its inspector method and none to the others, whether the call
\* succeeded or failed, and its result is the one this call's answer
\* determines.
C10_OneRoundTrip ==
    op \in InspectorMethods =>
        /\ calls = [NoCalls EXCEPT ![op] = 1]
        /\ AnswerDetermines(op, input, result)

C10_Witness ==
    /\ op = "get_foreign_keys"
    /\ input.kind = "raise"
    /\ calls["get_foreign_keys"] = 1
    /\ result.kind = "raise"

\* a sorts strictly before b in code point order
StrictlyBefore(a, b) ==
    \E k \in 0..Len(a) :
        /\ k <= Len(b)
        /\ SubSeq(a, 1, k) = SubSeq(b, 1, k)
        /\ \/ k = Len(a) /\ k < Len(b)
           \/ k < Len(a) /\ k < Len(b) /\ ord(a[k + 1]) < ord(b[k + 1])

\* C7: get_function_names returns, whatever the database, the names of the
\* list in strictly ascending code point order (sorted, no duplicate), with
\* abs and json_array_length among them and neither load_extension nor any
\* name outside the list.
C7_FunctionNamesSorted ==
    op = "get_function_names" =>
        /\ result.kind = "return"
        /\ \A i \in 1..(Len(result.value) - 1) :
              StrictlyBefore(result.value[i], result.value[i + 1])
        /\ Range(result.value) = Range(functions)
        /\ <<"a", "b", "s">> \in Range(result.value)
        /\ <<"j", "s", "o", "n", "_", "a", "r", "r", "a", "y", "_", "l", "e", "n", "g", "t", "h">> \in Range(result.value)
        /\ <<"l", "o", "a", "d", "_", "e", "x", "t", "e", "n", "s", "i", "o", "n">> \notin Range(result.value)
        /\ <<"n", "o", "t", "_", "a", "_", "v", "a", "l", "i", "d", "_", "f", "u", "n", "c", "t", "i", "o", "n">> \notin Range(result.value)

C7_Witness ==
    /\ op = "get_function_names"
    /\ args = <<"db">>
    /\ Len(result.value) = Len(functions)
    /\ result.value[1] = <<"a", "b", "s">>
    /\ result.value[Len(functions)] = <<"z", "e", "r", "o", "b", "l", "o", "b">>

(***************************************************************************)
(* convert_dttm                                                            *)
(***************************************************************************)
\* The SQLAlchemy types BaseEngineSpec.get_sqla_column_type resolves the
\* tested type names to, "None" for a name that no mapping matches
get_sqla_column_type(target_type) ==
    CASE target_type = "DATETIME" -> "DateTime"
      [] target_type = "TIMESTAMP" -> "TIMESTAMP"
      [] target_type = "TEXT" -> "String"
      [] target_type = "INTEGER" -> "Integer"
      [] OTHER -> "None"

\* the classes an instance of each type is an instance of
Mro(sqla_type) ==
    CASE sqla_type = "DateTime" -> {"DateTime", "TypeEngine"}
      [] sqla_type = "TIMESTAMP" -> {"TIMESTAMP", "DateTime", "TypeEngine"}
      [] sqla_type = "String" -> {"String", "TypeEngine"}
      [] sqla_type = "Integer" -> {"Integer", "TypeEngine"}
      [] OTHER -> {"NoneType"}

isinstance_exact(sqla_type, classes) == sqla_type \in classes

isinstance(sqla_type, classes) == Mro(sqla_type) \cap classes # {}

Digits == <<"0", "1", "2", "3", "4", "5", "6", "7", "8", "9">>

digit(n) == Digits[n + 1]

\* "%02d" and "%04d"
pad2(n) == <<digit(n \div 10), digit(n % 10)>>

pad4(n) ==
    <<digit(n \div 1000), digit((n \div 100) % 10), digit((n \div 10) % 10), digit(n % 10)>>

pad6(n) == pad2(n \div 10000) \o pad4(n % 10000)

\* datetime's UTC offset suffix: nothing for a naive datetime, else
\* +HH:MM or -HH:MM, with :SS when the offset has seconds
format_offset(dttm) ==
    IF ~dttm.aware THEN <<>>
    ELSE LET off == IF dttm.utcoffset < 0 THEN -dttm.utcoffset ELSE dttm.utcoffset
             sign == IF dttm.utcoffset < 0 THEN "-" ELSE "+"
             hh == off \div 3600
             mm == (off % 3600) \div 60
             ss == off % 60
         IN  <<sign>> \o pad2(hh) \o <<":">> \o pad2(mm)
                 \o (IF ss # 0 THEN <<":">> \o pad2(ss) ELSE <<>>)

\* datetime.isoformat(sep, timespec) for timespec "seconds" and "auto"
isoformat(dttm, sep, timespec) ==
    pad4(dttm.year) \o <<"-">> \o pad2(dttm.month) \o <<"-">> \o pad2(dttm.day)
        \o <<sep>>
        \o pad2(dttm.hour) \o <<":">> \o pad2(dttm.minute) \o <<":">> \o pad2(dttm.second)
        \o (IF timespec = "auto" /\ dttm.microsecond # 0
            THEN <<".">> \o pad6(dttm.microsecond) ELSE <<>>)
        \o format_offset(dttm)

PyNone == [kind |-> "None", value |-> <<>>]

PyStr(s) == [kind |-> "str", value |-> s]

convert_dttm_default_isoformat(target_type, dttm) ==
    IF dttm.is_none THEN PyNone
    ELSE IF isinstance(get_sqla_column_type(target_type), {"String", "DateTime"})
    THEN PyStr(<<"'">> \o isoformat(dttm, "T", "auto") \o <<"'">>)
    ELSE PyNone

convert_dttm(target_type, dttm) ==
    IF dttm.is_none THEN PyNone
    ELSE IF isinstance(get_sqla_column_type(target_type), {"String", "DateTime"})
    THEN PyStr(<<"'">> \o isoformat(dttm, " ", "seconds") \o <<"'">>)
    ELSE PyNone

TargetTypes == {"DATETIME", "TEXT", "TIMESTAMP", "INTEGER", "POINT"}

\* dttm=None
NoDttm ==
    [is_none |-> TRUE, year |-> 1, month |-> 1, day |-> 1, hour |-> 0, minute |-> 0,
     second |-> 0, microsecond |-> 0, aware |-> FALSE, utcoffset |-> 0]

\* naive datetimes, and aware ones with their UTC offset in seconds
Dttms ==
    {[is_none |-> FALSE, year |-> y, month |-> mo, day |-> d, hour |-> h, minute |-> mi,
      second |-> s, microsecond |-> us, aware |-> tz[1], utcoffset |-> tz[2]] :
        y \in {1, 2025, 9999}, mo \in {1, 12}, d \in {2, 31}, h \in {3, 23},
        mi \in {4, 59}, s \in {5, 59}, us \in {0, 123456},
        tz \in {<<FALSE, 0>>, <<TRUE, 0>>, <<TRUE, 19800>>, <<TRUE, -28800>>,
                <<TRUE, 3208>>}}

ConvertDttm ==
    /\ op = "init"
    /\ op' = "convert_dttm"
    /\ result' = convert_dttm(input.target_type, input.dttm)
    /\ UNCHANGED <<args, input, calls>>

InitDttm ==
    /\ op = "init"
    /\ args = <<>>
    /\ input \in [target_type : TargetTypes, dttm : Dttms \cup {NoDttm}]
    /\ result = NoValue
    /\ calls = NoCalls

NextDttm == ConvertDttm

SpecDttm == InitDttm /\ [][NextDttm]_vars

\* the target types the claims call string-like or datetime-like
LiteralTypes == {"DATETIME", "TEXT", "TIMESTAMP"}

\* C5: convert_dttm returns None when the timestamp is None, whatever the
\* target type; for a timestamp it returns a literal exactly when the target
\* type is string-like or datetime-like (DATETIME, TEXT, TIMESTAMP) and None
\* for every other type (INTEGER, a type that does not resolve).
C5_LiteralOnlyForStringOrDatetime ==
    op = "convert_dttm" =>
        /\ input.dttm.is_none => result.kind = "None"
        /\ ~input.dttm.is_none =>
              /\ input.target_type \in LiteralTypes => result.kind = "str"
              /\ input.target_type \notin LiteralTypes => result.kind = "None"

C5_Witness ==
    /\ op = "convert_dttm"
    /\ ~input.dttm.is_none
    /\ input.target_type = "TIMESTAMP"
    /\ result.kind = "str"

DigitValue(ch) == (CHOOSE i \in 1..10 : Digits[i] = ch) - 1

IsDigit(ch) == \E i \in 1..10 : Digits[i] = ch

\* the number written in s[from..to]
RECURSIVE Number(_, _, _)
Number(s, from, to) ==
    IF to < from THEN 0 ELSE 10 * Number(s, from, to - 1) + DigitValue(s[to])

AllDigits(s, from, to) == \A i \in from..to : IsDigit(s[i])

\* s is YYYY-MM-DD HH:MM:SS for the fields of dttm (19 characters)
IsStampOf(s, dttm) ==
    /\ Len(s) = 19
    /\ AllDigits(s, 1, 4) /\ s[5] = "-" /\ AllDigits(s, 6, 7) /\ s[8] = "-"
    /\ AllDigits(s, 9, 10) /\ s[11] = " "
    /\ AllDigits(s, 12, 13) /\ s[14] = ":" /\ AllDigits(s, 15, 16) /\ s[17] = ":"
    /\ AllDigits(s, 18, 19)
    /\ Number(s, 1, 4) = dttm.year /\ Number(s, 6, 7) = dttm.month
    /\ Number(s, 9, 10) = dttm.day /\ Number(s, 12, 13) = dttm.hour
    /\ Number(s, 15, 16) = dttm.minute /\ Number(s, 18, 19) = dttm.second

\* s is +HH:MM or -HH:MM, or that followed by :SS
IsOffset(s) ==
    /\ Len(s) \in {6, 9}
    /\ s[1] \in {"+", "-"}
    /\ AllDigits(s, 2, 3) /\ s[4] = ":" /\ AllDigits(s, 5, 6)
    /\ Len(s) = 9 => (s[7] = ":" /\ AllDigits(s, 8, 9))

Quoted(s) == Len(s) >= 2 /\ s[1] = "'" /\ s[Len(s)] = "'"

Unquoted(s) == SubSeq(s, 2, Len(s) - 1)

\* C6 as stated: for every timestamp, with sub-seconds or a time-zone offset
\* too, the literal is exactly 'YYYY-MM-DD HH:MM:SS', with nothing after the
\* seconds.
C6_LiteralIsSecondPrecisionStamp ==
    (op = "convert_dttm" /\ result.kind = "str") =>
        /\ Quoted(result.value)
        /\ IsStampOf(Unquoted(result.value), input.dttm)

\* C6 amended: for a timestamp without a time-zone offset (sub-seconds or
\* not) the literal is exactly 'YYYY-MM-DD HH:MM:SS'; for a timestamp with a
\* UTC offset the same 19 characters are followed, inside the quotes, by the
\* offset as +HH:MM or -HH:MM (and :SS when the offset has seconds).
C6_NaiveLiteralIsSecondPrecisionStamp ==
    (op = "convert_dttm" /\ result.kind = "str") =>
        /\ Quoted(result.value)
        /\ IsStampOf(SubSeq(Unquoted(result.value), 1, 19), input.dttm)
        /\ ~input.dttm.aware => Len(result.value) = 21
        /\ input.dttm.aware =>
              IsOffset(SubSeq(Unquoted(result.value), 20, Len(result.value) - 2))

C6_Witness ==
    /\ op = "convert_dttm"
    /\ input.target_type = "DATETIME"
    /\ ~input.dttm.is_none
    /\ ~input.dttm.aware
    /\ input.dttm.microsecond = 123456
    /\ input.dttm.year = 2025
    /\ result.kind = "str"
    /\ Len(result.value) = 21

(***************************************************************************)
(* custom_errors                                                           *)
(***************************************************************************)
\* re.compile("no such column: (?P<column_name>.+)"): the literal text, then
\* the named group .+ (one or more characters other than a newline, greedy)
COLUMN_DOES_NOT_EXIST_REGEX ==
    [literal |-> <<"n", "o", " ", "s", "u", "c", "h", " ", "c", "o", "l", "u", "m", "n", ":", " ">>, group |-> "column_name"]

\* the end of the longest run of characters other than newline from index j
RECURSIVE dot_plus_end(_, _)
dot_plus_end(string, j) ==
    IF j <= Len(string) /\ string[j] # "\n" THEN dot_plus_end(string, j + 1) ELSE j - 1

\* the pattern matched at index i: the text the group captures, or no match
match_at(pattern, string, i) ==
    LET n == Len(pattern.literal)
        e == dot_plus_end(string, i + n)
    IN  IF /\ i + n - 1 <= Len(string)
           /\ SubSeq(string, i, i + n - 1) = pattern.literal
           /\ e >= i + n
        THEN [kind |-> "match", value |-> SubSeq(string, i + n, e)]
        ELSE [kind |-> "None", value |-> <<>>]

\* Pattern.search: the match at the leftmost index where the pattern matches
RECURSIVE search_from(_, _, _)
search_from(pattern, string, i) ==
    IF i > Len(string) THEN [kind |-> "None", value |-> <<>>]
    ELSE IF match_at(pattern, string, i).kind = "match" THEN match_at(pattern, string, i)
    ELSE search_from(pattern, string, i + 1)

\* Pattern.match: only at the start of the string
search_anchored(pattern, string) == match_at(pattern, string, 1)

search(pattern, string) == search_from(pattern, string, 1)

\* custom_errors: pattern -> (message, error type, extra)
custom_errors ==
    <<[pattern |-> COLUMN_DOES_NOT_EXIST_REGEX,
       error_type |-> "COLUMN_DOES_NOT_EXIST_ERROR"]>>

\* Raw error messages: text before, the marker or a near miss, the column
\* name, text after
Messages ==
    {before \o marker \o name \o after :
        before \in {<<>>, <<"E", "r", "r", "o", "r", ":", " ">>, <<"n", "o", " ", "s", "u", "c", "h", " ", "c", "o", "l", "u", "m", "n", ":", " ", "\n">>},
        marker \in {<<"n", "o", " ", "s", "u", "c", "h", " ", "c", "o", "l", "u", "m", "n", ":", " ">>, <<"n", "o", " ", "s", "u", "c", "h", " ", "c", "o", "l", "u", "m", "n", ":">>, <<"n", "o", " ", "s", "u", "c", "h", " ", "t", "a", "b", "l", "e", ":", " ">>},
        name \in {<<>>, <<"a">>, <<"n", "o", "n", "_", "e", "x", "i", "s", "t", "e", "n", "t", "_", "c", "o", "l">>, <<"a", " ", "b">>},
        after \in {<<>>, <<"\n", "a", "t", " ", "o", "f", "f", "s", "e", "t", " ", "7">>, <<" ", "n", "o", " ", "s", "u", "c", "h", " ", "c", "o", "l", "u", "m", "n", ":", " ", "c">>}}

\* the lookup of tests/test_d1_engine_spec.py: search with the one pattern of
\* custom_errors and read its error type
SearchCustomErrors ==
    /\ op = "init"
    /\ op' = "custom_errors"
    /\ result' = [match |-> search(custom_errors[1].pattern, input),
                  error_type |-> custom_errors[1].error_type]
    /\ UNCHANGED <<args, input, calls>>

InitErrors ==
    /\ op = "init"
    /\ args = <<>>
    /\ input \in Messages
    /\ result = NoValue
    /\ calls = NoCalls

NextErrors == SearchCustomErrors

SpecErrors == InitErrors /\ [][NextErrors]_vars

Marker == <<"n", "o", " ", "s", "u", "c", "h", " ", "c", "o", "l", "u", "m", "n", ":", " ">>

\* the rest of the line of msg from index j
RestOfLine(msg, j) ==
    LET ends == {e \in (j - 1)..Len(msg) : \A k \in j..e : msg[k] # "\n"}
    IN  SubSeq(msg, j, CHOOSE e \in ends : \A f \in ends : f <= e)

\* the indexes where msg has "no such column: X" with X, the rest of the
\* line, not empty
Occurrences(msg) ==
    {i \in 1..Len(msg) :
        /\ i + Len(Marker) - 1 <= Len(msg)
        /\ SubSeq(msg, i, i + Len(Marker) - 1) = Marker
        /\ RestOfLine(msg, i + Len(Marker)) # <<>>}

First(S) == CHOOSE i \in S : \A j \in S : i <= j

\* C8: a message that contains "no such column: X", X not empty, anywhere is
\* matched by the one pattern of custom_errors, the group column_name is X,
\* the rest of that line, and the pattern maps to COLUMN_DOES_NOT_EXIST_ERROR;
\* a message without that text is not matched.
C8_ColumnNameCaptured ==
    op = "custom_errors" =>
        /\ Len(custom_errors) = 1
        /\ result.error_type = "COLUMN_DOES_NOT_EXIST_ERROR"
        /\ Occurrences(input) = {} => result.match.kind = "None"
        /\ Occurrences(input) # {} =>
              /\ result.match.kind = "match"
              /\ result.match.value =
                     RestOfLine(input, First(Occurrences(input)) + Len(Marker))

C8_Witness ==
    /\ op = "custom_errors"
    /\ input = <<"E", "r", "r", "o", "r", ":", " ", "n", "o", " ", "s", "u", "c", "h", " ", "c", "o", "l", "u", "m", "n", ":", " ", "n", "o", "n", "_", "e", "x", "i", "s", "t", "e", "n", "t", "_", "c", "o", "l">>
    /\ result.match.kind = "match"
    /\ result.match.value = <<"n", "o", "n", "_", "e", "x", "i", "s", "t", "e", "n", "t", "_", "c", "o", "l">>
    /\ result.error_type = "COLUMN_DOES_NOT_EXIST_ERROR"

(***************************************************************************)
(* _time_grain_expressions[TimeGrain.WEEK]                                 *)
(***************************************************************************)
\* A timestamp as SQLite holds it: the Julian day number of its date and the
\* seconds since midnight.

\* strftime('%w', col): day of week 0-6 with Sunday = 0
strftime_w_monday(col) == col.jdn % 7

strftime_w(col) == (col.jdn + 1) % 7

\* the modifier 'start of day'
start_of_day(ts) == [ts EXCEPT !.secs = 0]

\* the modifier 'N days'
add_days(ts, n) == [ts EXCEPT !.jdn = @ + n]

\* DATETIME({col}, 'start of day', -strftime('%w', {col}) || ' days')
time_grain_week(col) == add_days(start_of_day(col), -strftime_w(col))

MaxDay == 59

\* 2025-01-01 (a Wednesday) and the MaxDay days after it, at three times of day
Timestamps ==
    [jdn : 2460677..(2460677 + MaxDay), secs : {0, 11045, 86399}]

TruncateToWeek ==
    /\ op = "init"
    /\ op' = "time_grain_week"
    /\ result' = time_grain_week(input)
    /\ UNCHANGED <<args, input, calls>>

InitWeek ==
    /\ op = "init"
    /\ args = <<>>
    /\ input \in Timestamps
    /\ result = NoValue
    /\ calls = NoCalls

NextWeek == TruncateToWeek

SpecWeek == InitWeek /\ [][NextWeek]_vars

\* Julian day number 0 was a Monday
IsMonday(jdn) == jdn % 7 = 0

IsSunday(jdn) == jdn % 7 = 6

\* C9 as stated: the WEEK expression yields midnight of the first day of the
\* ISO week of the timestamp: a Monday on or before the timestamp's date and
\* at most 6 days before it.
C9_WeekStartsOnMonday ==
    op = "time_grain_week" =>
        /\ result.secs = 0
        /\ IsMonday(result.jdn)
        /\ result.jdn <= input.jdn
        /\ input.jdn - result.jdn <= 6

\* C9 amended: the WEEK expression yields midnight of the first day of the
\* Sunday-based week of the timestamp: a Sunday on or before the timestamp's
\* date and at most 6 days before it.
C9_WeekStartsOnSunday ==
    op = "time_grain_week" =>
        /\ result.secs = 0
        /\ IsSunday(result.jdn)
        /\ result.jdn <= input.jdn
        /\ input.jdn - result.jdn <= 6

\* Wednesday 2025-01-01 03:04:05 goes to Sunday 2024-12-29 00:00:00
C9_Witness ==
    /\ op = "time_grain_week"
    /\ input = [jdn |-> 2460677, secs |-> 11045]
    /\ result = [jdn |-> 2460674, secs |-> 0]

=============================================================================
